---- MODULE Spec2Model ----
(***************************************************************************)
(* TubeInsight: transcript acquisition with fallback (scrape, then audio   *)
(* download and Whisper), the transcript file, the summary and the         *)
(* interactive question loop of main().                                    *)
(*                                                                         *)
(* Python strings that the code trims, lower-cases, joins, truncates or    *)
(* formats are sequences of one-character strings, so that strip(),        *)
(* lower(), " ".join, the [:150] slice and the f-strings are computed.     *)
(***************************************************************************)
EXTENDS Integers, Sequences, FiniteSets, TLC

VARIABLES
    pc,              \* position of main(): the line it executes next
    transcript,      \* main's local `transcript`
    lang,            \* main's local `lang`
    video_info,      \* main's local `video_info`
    audio_file,      \* main's local `audio_file`
    chat_history,    \* main's local `chat_history`
    _whisper_model,  \* module global of services/transcript.py
    file,            \* data/transcript.txt on disk
    run,             \* number of the current process
    calls,           \* functions main has called in this run
    printed,         \* messages and prompts shown in this run
    scraped,         \* response the scrape of this run received
    heard,           \* what Whisper produced for the audio in this run
    lastSave,        \* the most recent save_transcript_with_metadata call
    lastPrompt,      \* prompt of the most recent ask_question_stream call
    askLog,          \* one entry per ask_question_stream call of this run
    loads,           \* successful whisper.load_model calls in this process
    apiCalls,        \* get_whisper_model / transcribe calls of a library client
    lastHandle,      \* model handle the most recent such call obtained
    lastInput        \* the line the user typed last at the question prompt

vars == <<pc, transcript, lang, video_info, audio_file, chat_history,
          _whisper_model, file, run, calls, printed, scraped, heard, lastSave,
          lastPrompt, askLog, loads, apiCalls, lastHandle, lastInput>>

(***************************************************************************)
(* Bounds of the model.                                                    *)
(***************************************************************************)
MaxSegs == 2
MaxQuestions == 2
MaxRuns == 2
MaxLoopQuestions == 12
MaxApiCalls == 6

(***************************************************************************)
(* Program constants.                                                      *)
(***************************************************************************)
DescLimit == 150
HistoryWindow == 10

None == "None"
Empty == << >>

(***************************************************************************)
(* str.strip(), str.lower(), str.join, str(int)                            *)
(***************************************************************************)
Whitespace == {" ", "\n"}

RECURSIVE LStrip(_)
LStrip(s) ==
    IF s = Empty THEN Empty
    ELSE IF Head(s) \in Whitespace THEN LStrip(Tail(s)) ELSE s

RECURSIVE RStrip(_)
RStrip(s) ==
    IF s = Empty THEN Empty
    ELSE IF s[Len(s)] \in Whitespace THEN RStrip(SubSeq(s, 1, Len(s) - 1)) ELSE s

Strip(s) == RStrip(LStrip(s))

LowerChar(c) ==
    CASE c = "E" -> "e" [] c = "X" -> "x" [] c = "I" -> "i" [] c = "T" -> "t"
      [] c = "Q" -> "q" [] c = "U" -> "u" [] OTHER -> c

Lower(s) == [i \in 1..Len(s) |-> LowerChar(s[i])]

RECURSIVE Join(_, _)
Join(sep, parts) ==
    IF parts = Empty THEN Empty
    ELSE IF Len(parts) = 1 THEN parts[1]
    ELSE parts[1] \o sep \o Join(sep, Tail(parts))

Digit(d) == <<"0", "1", "2", "3", "4", "5", "6", "7", "8", "9">>[d + 1]

RECURSIVE NatToStr(_)
NatToStr(n) == IF n < 10 THEN <<Digit(n)>> ELSE NatToStr(n \div 10) \o <<Digit(n % 10)>>

(***************************************************************************)
(* services/youtube.py                                                     *)
(***************************************************************************)
Unknown == <<"U", "n", "k", "n", "o", "w", "n">>

IntViews(n) == [isInt |-> TRUE, n |-> n, s |-> Empty]
StrViews(s) == [isInt |-> FALSE, n |-> 0, s |-> s]

\* What pytubefix reports for the video: a description one character longer
\* than the store's limit.
FetchedInfo ==
    [title |-> <<"T">>, channel |-> <<"K">>, views |-> IntViews(DescLimit * 10),
     description |-> [i \in 1..(DescLimit + 1) |-> "d"]]

UnknownInfo ==
    [title |-> Unknown, channel |-> Unknown, views |-> StrViews(Unknown),
     description |-> Unknown]

\* `video_info` before main assigns it.
NoInfo == [title |-> Empty, channel |-> Empty, views |-> StrViews(Empty), description |-> Empty]

PytubeOutcomes == {"ok", "error"}

get_video_info(outcome) == IF outcome = "ok" THEN FetchedInfo ELSE UnknownInfo

AudioFilename == <<"a", ".", "m", "p", "3">>

\* PTFixYouTube(url) fails, no audio-only stream, the download fails, or
\* os.replace fails: each is caught and yields "".
DownloadOutcomes == {"ok", "network_error", "no_audio_stream", "rename_error"}

download_audio(outcome) == IF outcome = "ok" THEN AudioFilename ELSE Empty

(***************************************************************************)
(* services/transcript.py: the transcript store                            *)
(***************************************************************************)
FormatViews(v) == IF v.isInt THEN NatToStr(v.n) ELSE v.s

Truncated(description) ==
    IF Len(description) > DescLimit
    THEN SubSeq(description, 1, DescLimit) \o <<".", ".", ".">>
    ELSE description

SaveText(info, text) ==
    <<"T", "i", "t", "l", "e", ":", " ">> \o info.title \o <<"\n">>
    \o <<"C", "h", "a", "n", "n", "e", "l", ":", " ">> \o info.channel \o <<"\n">>
    \o <<"V", "i", "e", "w", "s", ":", " ">> \o FormatViews(info.views) \o <<"\n">>
    \o <<"D", "e", "s", "c", "r", "i", "p", "t", "i", "o", "n", ":", " ">>
    \o Truncated(info.description) \o <<"\n", "\n">>
    \o <<"T", "r", "a", "n", "s", "c", "r", "i", "p", "t", ":", "\n", "\n">> \o text

NoFile == [exists |-> FALSE, content |-> Empty]

\* os.makedirs or open() fails (the file is untouched), or open(.., "w") has
\* truncated the file and the write fails, or the write succeeds.
SaveOutcomes == {"ok", "open_error", "write_error"}

AppendedFile(old, info, text, outcome) ==
    CASE outcome = "ok" -> [exists |-> TRUE, content |-> old.content \o SaveText(info, text)]
      [] outcome = "write_error" -> [exists |-> TRUE, content |-> old.content]
      [] OTHER -> old

save_transcript_with_metadata(old, info, text, outcome) ==
    CASE outcome = "ok" -> [exists |-> TRUE, content |-> SaveText(info, text)]
      [] outcome = "write_error" -> [exists |-> TRUE, content |-> Empty]
      [] OTHER -> old

\* record of a save_transcript_with_metadata call: its arguments, its outcome,
\* the process that made it, and whether the file held other text before
NoSave ==
    [made |-> FALSE, info |-> NoInfo, text |-> Empty, outcome |-> "none", run |-> 0,
     overwrote |-> FALSE]

SaveCall(old, info, text, outcome) ==
    [made |-> TRUE, info |-> info, text |-> text, outcome |-> outcome, run |-> run,
     overwrote |-> old.exists /\ old.content # Empty /\ old.content # SaveText(info, text)]

(***************************************************************************)
(* services/transcript.py: get_youtube_transcript                          *)
(***************************************************************************)
\* Text of a <span class="transcript-segment"> (one text node each).
SegTexts == {<<" ">>, <<"a">>, <<" ", "b", "\n">>}

SegLists == UNION {[1..n -> SegTexts] : n \in 0..MaxSegs}

\* requests.post / raise_for_status raises RequestException; BeautifulSoup
\* rejects the markup (bs4.ParserRejectedMarkup); or the HTML is parsed.
ScrapeResponses ==
    {[kind |-> "request_exception", segs |-> Empty],
     [kind |-> "parser_rejected", segs |-> Empty]}
    \cup {[kind |-> "html", segs |-> l] : l \in SegLists}

NoResponse == [kind |-> "none", segs |-> Empty]

get_text(seg) == Strip(seg)

UnfilteredText(segs) == Join(<<" ">>, [i \in 1..Len(segs) |-> get_text(segs[i])])

SegmentsText(segs) ==
    Join(<<" ">>, SelectSeq([i \in 1..Len(segs) |-> get_text(segs[i])],
                            LAMBDA t : t # Empty))

\* result of get_youtube_transcript: raised, or the pair returned and
\* whether save_transcript_with_metadata was called
get_youtube_transcript(resp) ==
    IF resp.kind = "request_exception"
    THEN [raised |-> FALSE, text |-> Empty, tag |-> None, saves |-> FALSE, info |-> FALSE]
    ELSE IF resp.kind = "parser_rejected"
    THEN [raised |-> TRUE, text |-> Empty, tag |-> None, saves |-> FALSE, info |-> TRUE]
    ELSE IF resp.segs = Empty
    THEN [raised |-> FALSE, text |-> Empty, tag |-> None, saves |-> FALSE, info |-> TRUE]
    ELSE LET text == SegmentsText(resp.segs)
         IN  IF text # Empty
             THEN [raised |-> FALSE, text |-> text, tag |-> "auto", saves |-> TRUE, info |-> TRUE]
             ELSE [raised |-> FALSE, text |-> Empty, tag |-> None, saves |-> FALSE, info |-> TRUE]

(***************************************************************************)
(* services/transcript.py: the cached Whisper model and transcription      *)
(***************************************************************************)
ModelNone == 0

LoadOutcomes == {"ok", "error"}

\* get_whisper_model: the handle it leaves in _whisper_model (a fresh object
\* per successful load) and whether whisper.load_model raised
ReloadingModel(model, loaded, outcome) ==
    IF outcome = "ok"
    THEN [model |-> loaded + 1, loads |-> loaded + 1, raised |-> FALSE]
    ELSE [model |-> ModelNone, loads |-> loaded, raised |-> TRUE]

get_whisper_model(model, loaded, outcome) ==
    IF model = ModelNone
    THEN IF outcome = "ok"
         THEN [model |-> loaded + 1, loads |-> loaded + 1, raised |-> FALSE]
         ELSE [model |-> model, loads |-> loaded, raised |-> TRUE]
    ELSE [model |-> model, loads |-> loaded, raised |-> FALSE]

\* model.transcribe: raises, returns a dict without "text", or returns text
WhisperResults ==
    {[kind |-> "error", text |-> Empty],
     [kind |-> "no_text", text |-> Empty],
     [kind |-> "text", text |-> <<" ">>],
     [kind |-> "text", text |-> <<" ", "h", "i", "\n">>]}

NoResult == [kind |-> "none", text |-> Empty]

UnstrippedText(got, res) ==
    IF got.raised \/ res.kind = "error" THEN Empty ELSE res.text

\* text returned by transcribe_with_whisper
transcribe_with_whisper(got, res) ==
    IF got.raised \/ res.kind = "error" THEN Empty ELSE Strip(res.text)

(***************************************************************************)
(* services/gemini.py                                                      *)
(***************************************************************************)
\* generate_content(prompt, stream=True): the chunks received, and whether
\* the call or the iteration raised
BackendResponses ==
    {[chunks |-> << <<"y">>, Empty, <<"n">> >>, error |-> FALSE],
     [chunks |-> << <<"y">> >>, error |-> TRUE]}

RECURSIVE Accumulate(_)
Accumulate(chunks) ==
    IF chunks = Empty THEN Empty
    ELSE (IF Head(chunks) # Empty THEN Head(chunks) ELSE Empty) \o Accumulate(Tail(chunks))

\* final_text returned by summarize / ask_question_stream
StreamedText(resp) == IF resp.error THEN Empty ELSE Accumulate(resp.chunks)

PromptHead(text, info) ==
    <<"V", "i", "d", "e", "o", " ", "I", "n", "f", "o", ":", "\n">>
    \o <<"T", "i", "t", "l", "e", ":", " ">> \o info.title \o <<"\n">>
    \o <<"C", "h", "a", "n", "n", "e", "l", ":", " ">> \o info.channel \o <<"\n">>
    \o <<"V", "i", "e", "w", "s", ":", " ">> \o FormatViews(info.views) \o <<"\n">>
    \o <<"D", "e", "s", "c", "r", "i", "p", "t", "i", "o", "n", ":", " ">>
    \o info.description \o <<"\n", "\n">>
    \o <<"T", "r", "a", "n", "s", "c", "r", "i", "p", "t", ":", "\n">> \o text \o <<"\n", "\n">>

HistoryEntry(i, pair) ==
    <<"Q">> \o NatToStr(i) \o <<":", " ">> \o pair[1] \o <<"\n">>
    \o <<"A">> \o NatToStr(i) \o <<":", " ">> \o pair[2] \o <<"\n", "\n">>

RECURSIVE Enumerate(_, _)
Enumerate(pairs, i) ==
    IF pairs = Empty THEN Empty
    ELSE HistoryEntry(i, Head(pairs)) \o Enumerate(Tail(pairs), i + 1)

\* chat_history[:10]
OldestPairs(history) ==
    SubSeq(history, 1, IF Len(history) > HistoryWindow THEN HistoryWindow ELSE Len(history))

\* chat_history[-10:]
RecentPairs(history) ==
    SubSeq(history,
           IF Len(history) > HistoryWindow THEN Len(history) - HistoryWindow + 1 ELSE 1,
           Len(history))

CurrentQuestion(question) ==
    <<"C", "u", "r", "r", "e", "n", "t", " ", "Q", "u", "e", "s", "t", "i", "o", "n", ":", " ">>
    \o question

\* the prompt ask_question_stream sends
AskPrompt(text, info, question, history) ==
    PromptHead(text, info)
    \o (IF history # Empty THEN Enumerate(RecentPairs(history), 1) ELSE Empty)
    \o CurrentQuestion(question)

(***************************************************************************)
(* app.py: main()                                                          *)
(***************************************************************************)
\* what the user may type at the question prompt
UserInputs ==
    {<<" ", "e", "x", "\n">>, <<"e", "x">>,
     <<"E", "x", "i", "t", " ">>, <<"q", "u", "i", "t">>, <<"\n", "Q", "U", "I", "T">>}

ExitWords == {<<"e", "x", "i", "t">>, <<"q", "u", "i", "t">>}

\* line 50: `if not transcript`
AlwaysFallback(text) == TRUE

NeedsFallback(text) == text = Empty

\* line 57: `if not transcript`
NeverUnavailable(text) == FALSE

Unavailable(text) == text = Empty

\* line 78: `question.lower() in {"exit", "quit"}`
CaseSensitiveExit(question) == question \in ExitWords

IsExit(question) == Lower(question) \in ExitWords

\* line 82: `chat_history.append((question, answer))`
AppendIfAnswered(history, question, answer) ==
    IF answer = Empty THEN history ELSE Append(history, <<question, answer>>)

Appended(history, question, answer) == Append(history, <<question, answer>>)

Init ==
    /\ pc = "L47"
    /\ transcript = Empty
    /\ lang = None
    /\ video_info = NoInfo
    /\ audio_file = Empty
    /\ chat_history = Empty
    /\ _whisper_model = ModelNone
    /\ file = NoFile
    /\ run = 1
    /\ calls = {}
    /\ printed = {}
    /\ scraped = NoResponse
    /\ heard = NoResult
    /\ lastSave = NoSave
    /\ lastPrompt = Empty
    /\ askLog = Empty
    /\ loads = 0
    /\ apiCalls = 0
    /\ lastHandle = ModelNone
    /\ lastInput = Empty

\* lines 47: transcript, lang = get_youtube_transcript(url)
CallGetYoutubeTranscript ==
    /\ pc = "L47"
    /\ \E resp \in ScrapeResponses, io \in PytubeOutcomes, so \in SaveOutcomes :
          LET r == get_youtube_transcript(resp)
              info == get_video_info(io)
          IN  /\ scraped' = resp
              /\ calls' = calls \cup {"get_youtube_transcript"}
              /\ IF r.raised
                 THEN /\ pc' = "raised"
                      /\ UNCHANGED <<transcript, lang, file, lastSave>>
                 ELSE /\ pc' = "L50"
                      /\ transcript' = r.text
                      /\ lang' = r.tag
                      /\ file' = IF r.saves
                                 THEN save_transcript_with_metadata(file, info, r.text, so)
                                 ELSE file
                      /\ lastSave' = IF r.saves THEN SaveCall(file, info, r.text, so) ELSE lastSave
    /\ UNCHANGED <<video_info, audio_file, chat_history, _whisper_model, run, printed,
                   heard, lastPrompt, askLog, loads, apiCalls, lastHandle, lastInput>>

\* line 50, transcript found: on to line 57
SkipFallback ==
    /\ pc = "L50"
    /\ ~NeedsFallback(transcript)
    /\ pc' = "L57"
    /\ UNCHANGED <<transcript, lang, video_info, audio_file, chat_history, _whisper_model,
                   file, run, calls, printed, scraped, heard, lastSave, lastPrompt, askLog,
                   loads, apiCalls, lastHandle, lastInput>>

\* lines 50-53: audio_file = download_audio(url)
CallDownloadAudio ==
    /\ pc = "L50"
    /\ NeedsFallback(transcript)
    /\ \E o \in DownloadOutcomes :
          /\ audio_file' = download_audio(o)
          /\ pc' = IF download_audio(o) # Empty THEN "L54" ELSE "L57"
    /\ calls' = calls \cup {"download_audio"}
    /\ printed' = printed \cup {"No captions found. Falling back to Whisper..."}
    /\ UNCHANGED <<transcript, lang, video_info, chat_history, _whisper_model, file, run,
                   scraped, heard, lastSave, lastPrompt, askLog, loads, apiCalls,
                   lastHandle, lastInput>>

\* the value transcribe_with_whisper returns in the current state
Transcribed(lo, res) ==
    transcribe_with_whisper(get_whisper_model(_whisper_model, loads, lo), res)

\* the effects of transcribe_with_whisper
Transcribing(lo, res, io, so) ==
    LET got == get_whisper_model(_whisper_model, loads, lo)
        info == get_video_info(io)
        text == Transcribed(lo, res)
    IN  /\ _whisper_model' = got.model
        /\ loads' = got.loads
        /\ lastHandle' = IF got.raised THEN ModelNone ELSE got.model
        /\ heard' = IF got.raised THEN [kind |-> "load_error", text |-> Empty] ELSE res
        /\ file' = IF text # Empty
                   THEN save_transcript_with_metadata(file, info, text, so)
                   ELSE file
        /\ lastSave' = IF text # Empty THEN SaveCall(file, info, text, so) ELSE lastSave

\* lines 54-55: transcript = transcribe_with_whisper(audio_file, url); lang = "auto"
CallTranscribeWithWhisper ==
    /\ pc = "L54"
    /\ \E lo \in LoadOutcomes, res \in WhisperResults, io \in PytubeOutcomes,
          so \in SaveOutcomes :
          /\ Transcribing(lo, res, io, so)
          /\ transcript' = Transcribed(lo, res)
    /\ lang' = "auto"
    /\ pc' = "L57"
    /\ calls' = calls \cup {"transcribe_with_whisper"}
    /\ UNCHANGED <<video_info, audio_file, chat_history, run, printed, scraped, lastPrompt,
                   askLog, apiCalls, lastInput>>

\* lines 57-59: no transcript, print and return
TranscriptNotAvailable ==
    /\ pc = "L57"
    /\ Unavailable(transcript)
    /\ printed' = printed \cup {"Transcript not available."}
    /\ pc' = "returned"
    /\ UNCHANGED <<transcript, lang, video_info, audio_file, chat_history, _whisper_model,
                   file, run, calls, scraped, heard, lastSave, lastPrompt, askLog, loads,
                   apiCalls, lastHandle, lastInput>>

\* lines 62-69: video_info = get_video_info(url), shown with the language
ShowVideoInfo ==
    /\ pc = "L57"
    /\ ~Unavailable(transcript)
    /\ \E io \in PytubeOutcomes : video_info' = get_video_info(io)
    /\ calls' = calls \cup {"get_video_info"}
    /\ printed' = printed \cup {"VIDEO INFO"}
    /\ pc' = "L73"
    /\ UNCHANGED <<transcript, lang, audio_file, chat_history, _whisper_model, file, run,
                   scraped, heard, lastSave, lastPrompt, askLog, loads, apiCalls,
                   lastHandle, lastInput>>

\* lines 72-73: summarize(transcript, video_info); it catches every exception
\* and main discards the text it returns
CallSummarize ==
    /\ pc = "L73"
    /\ printed' = printed \cup {"SUMMARY"}
    /\ calls' = calls \cup {"summarize"}
    /\ pc' = "L77"
    /\ UNCHANGED <<transcript, lang, video_info, audio_file, chat_history, _whisper_model,
                   file, run, scraped, heard, lastSave, lastPrompt, askLog, loads,
                   apiCalls, lastHandle, lastInput>>

\* lines 77-82: a question that is not exit/quit is answered and recorded
AskQuestion(bound) ==
    /\ pc = "L77"
    /\ Len(chat_history) < bound
    /\ \E raw \in UserInputs, resp \in BackendResponses :
          LET question == Strip(raw)
              answer == StreamedText(resp)
          IN  /\ ~IsExit(question)
              /\ lastInput' = raw
              /\ lastPrompt' = AskPrompt(transcript, video_info, question, chat_history)
              /\ chat_history' = Appended(chat_history, question, answer)
              /\ askLog' = Append(askLog, [question |-> question, failed |-> resp.error])
    /\ calls' = calls \cup {"ask_question_stream"}
    /\ printed' = printed \cup {"Ask a question (or 'exit' to quit):"}
    /\ pc' = "L77"
    /\ UNCHANGED <<transcript, lang, video_info, audio_file, _whisper_model, file, run,
                   scraped, heard, lastSave, loads, apiCalls, lastHandle>>

\* lines 77-79: exit or quit ends the loop and main returns
Quit ==
    /\ pc = "L77"
    /\ \E raw \in UserInputs :
          /\ IsExit(Strip(raw))
          /\ lastInput' = raw
    /\ printed' = printed \cup {"Ask a question (or 'exit' to quit):"}
    /\ pc' = "returned"
    /\ UNCHANGED <<transcript, lang, video_info, audio_file, chat_history, _whisper_model,
                   file, run, calls, scraped, heard, lastSave, lastPrompt, askLog, loads,
                   apiCalls, lastHandle>>

\* the program is started again: a new process, the same disk
NewRun ==
    /\ pc \in {"returned", "raised"}
    /\ run < MaxRuns
    /\ run' = run + 1
    /\ pc' = "L47"
    /\ transcript' = Empty
    /\ lang' = None
    /\ video_info' = NoInfo
    /\ audio_file' = Empty
    /\ chat_history' = Empty
    /\ _whisper_model' = ModelNone
    /\ loads' = 0
    /\ calls' = {}
    /\ printed' = {}
    /\ scraped' = NoResponse
    /\ heard' = NoResult
    /\ lastPrompt' = Empty
    /\ askLog' = Empty
    /\ lastHandle' = ModelNone
    /\ lastInput' = Empty
    /\ UNCHANGED <<file, lastSave, apiCalls>>

Next ==
    \/ CallGetYoutubeTranscript
    \/ SkipFallback
    \/ CallDownloadAudio
    \/ CallTranscribeWithWhisper
    \/ TranscriptNotAvailable
    \/ ShowVideoInfo
    \/ CallSummarize
    \/ AskQuestion(MaxQuestions)
    \/ Quit
    \/ NewRun

Spec == Init /\ [][Next]_vars

(***************************************************************************)
(* The question loop on its own, entered as main enters it after a scrape  *)
(* that found the one segment "a" and a metadata lookup that failed.       *)
(***************************************************************************)
InitLoop ==
    /\ pc = "L77"
    /\ transcript = <<"a">>
    /\ lang = "auto"
    /\ video_info = UnknownInfo
    /\ audio_file = Empty
    /\ chat_history = Empty
    /\ _whisper_model = ModelNone
    /\ file = save_transcript_with_metadata(NoFile, UnknownInfo, <<"a">>, "ok")
    /\ run = 1
    /\ calls = {"get_youtube_transcript", "get_video_info", "summarize"}
    /\ printed = {"VIDEO INFO", "SUMMARY"}
    /\ scraped = [kind |-> "html", segs |-> << <<"a">> >>]
    /\ heard = NoResult
    /\ lastSave = SaveCall(NoFile, UnknownInfo, <<"a">>, "ok")
    /\ lastPrompt = Empty
    /\ askLog = Empty
    /\ loads = 0
    /\ apiCalls = 0
    /\ lastHandle = ModelNone
    /\ lastInput = Empty

NextLoop ==
    \/ AskQuestion(MaxLoopQuestions)
    \/ Quit

SpecLoop == InitLoop /\ [][NextLoop]_vars

(***************************************************************************)
(* services/transcript.py used as a library: any sequence of               *)
(* get_whisper_model and transcribe_with_whisper calls in one process.     *)
(***************************************************************************)
InitApi ==
    /\ pc = "api"
    /\ transcript = Empty
    /\ lang = None
    /\ video_info = NoInfo
    /\ audio_file = Empty
    /\ chat_history = Empty
    /\ _whisper_model = ModelNone
    /\ file = NoFile
    /\ run = 1
    /\ calls = {}
    /\ printed = {}
    /\ scraped = NoResponse
    /\ heard = NoResult
    /\ lastSave = NoSave
    /\ lastPrompt = Empty
    /\ askLog = Empty
    /\ loads = 0
    /\ apiCalls = 0
    /\ lastHandle = ModelNone
    /\ lastInput = Empty

ApiGetWhisperModel ==
    /\ pc = "api"
    /\ apiCalls < MaxApiCalls
    /\ apiCalls' = apiCalls + 1
    /\ \E lo \in LoadOutcomes :
          LET got == get_whisper_model(_whisper_model, loads, lo)
          IN  /\ _whisper_model' = got.model
              /\ loads' = got.loads
              /\ lastHandle' = IF got.raised THEN ModelNone ELSE got.model
    /\ calls' = {"get_whisper_model"}
    /\ UNCHANGED <<pc, transcript, lang, video_info, audio_file, chat_history, file, run,
                   printed, scraped, heard, lastSave, lastPrompt, askLog, lastInput>>

ApiTranscribeWithWhisper ==
    /\ pc = "api"
    /\ apiCalls < MaxApiCalls
    /\ apiCalls' = apiCalls + 1
    /\ \E lo \in LoadOutcomes, res \in WhisperResults, io \in PytubeOutcomes,
          so \in SaveOutcomes :
          Transcribing(lo, res, io, so)
    /\ calls' = {"transcribe_with_whisper"}
    /\ UNCHANGED <<pc, transcript, lang, video_info, audio_file, chat_history, run,
                   printed, scraped, lastPrompt, askLog, lastInput>>

NextApi ==
    \/ ApiGetWhisperModel
    \/ ApiTranscribeWithWhisper

SpecApi == InitApi /\ [][NextApi]_vars

(***************************************************************************)
(* Properties                                                              *)
(***************************************************************************)
AllWhitespace(s) == \A k \in 1..Len(s) : s[k] \in Whitespace

\* t is raw without its leading and trailing whitespace
IsTrimOf(t, raw) ==
    IF t = Empty THEN AllWhitespace(raw)
    ELSE /\ t[1] \notin Whitespace
         /\ t[Len(t)] \notin Whitespace
         /\ \E i \in 1..Len(raw) :
               /\ i + Len(t) - 1 <= Len(raw)
               /\ SubSeq(raw, i, i + Len(t) - 1) = t
               /\ AllWhitespace(SubSeq(raw, 1, i - 1))
               /\ AllWhitespace(SubSeq(raw, i + Len(t), Len(raw)))

Trimmed(raw) ==
    CHOOSE t \in {SubSeq(raw, i, j) : i \in 1..(Len(raw) + 1), j \in 0..Len(raw)} :
        IsTrimOf(t, raw)

\* the scrape of this run found a segment with text in it
FoundSegment ==
    /\ scraped.kind = "html"
    /\ \E i \in 1..Len(scraped.segs) : ~AllWhitespace(scraped.segs[i])

\* the scrape of this run returned without a transcript
FoundNothing ==
    \/ scraped.kind = "request_exception"
    \/ scraped.kind = "html" /\ ~FoundSegment

AfterAcquisition == pc \in {"L57", "L73", "L77", "returned"}

\* C1: once the scrape has returned a transcript (some segment has text),
\* main calls neither download_audio nor transcribe_with_whisper in that run.
C1_FallbackShortCircuits ==
    (pc # "L47" /\ FoundSegment)
        => calls \cap {"download_audio", "transcribe_with_whisper"} = {}

C1_Witness ==
    /\ FoundSegment
    /\ pc = "returned"
    /\ "summarize" \in calls
    /\ chat_history # Empty

\* C2: when the scrape returned no transcript and download_audio returned a
\* path, the transcript of the rest of the run is Whisper's text with its
\* surrounding whitespace removed ("" when transcription failed), and the
\* source tag is "auto".
C2_WhisperTranscript ==
    (AfterAcquisition /\ FoundNothing /\ audio_file # Empty)
        => /\ lang = "auto"
           /\ "transcribe_with_whisper" \in calls
           /\ IF heard.kind = "text"
              THEN IsTrimOf(transcript, heard.text)
              ELSE transcript = Empty

C2_Witness ==
    /\ pc = "L77"
    /\ FoundNothing
    /\ audio_file # Empty
    /\ heard.kind = "text"
    /\ transcript # heard.text
    /\ transcript # Empty

\* C3: when the scrape and the audio download both fail, main prints
\* "Transcript not available." and returns without calling get_video_info,
\* summarize or ask_question_stream and without prompting for a question; and
\* summarize and the question loop are reached only with a transcript.
C3_NoTranscriptNoSession ==
    /\ (FoundNothing /\ "download_audio" \in calls /\ audio_file = Empty)
          => /\ pc \in {"L57", "returned"}
             /\ calls \cap {"get_video_info", "summarize", "ask_question_stream"} = {}
             /\ "Ask a question (or 'exit' to quit):" \notin printed
             /\ pc = "returned" => "Transcript not available." \in printed
    /\ (pc \in {"L73", "L77"} \/ calls \cap {"summarize", "ask_question_stream"} # {})
          => transcript # Empty

C3_Witness ==
    /\ pc = "returned"
    /\ FoundNothing
    /\ "download_audio" \in calls
    /\ audio_file = Empty
    /\ "Transcript not available." \in printed

\* the history part of a prompt built after the pairs `prior`: the last
\* min(Len(prior), 10) of them, oldest first, numbered from 1
ExpectedHistory(prior) ==
    LET n == Len(prior)
        k == IF n < HistoryWindow THEN n ELSE HistoryWindow
        entries == [i \in 1..k |-> HistoryEntry(i, prior[n - k + i])]
    IN  Join(Empty, entries)

\* C4: the prompt of every ask_question_stream call of the loop holds, after
\* the transcript, exactly the min(n, 10) most recent of the n earlier pairs
\* in chronological order, numbered from 1, and then the current question.
C4_PromptHistoryWindow ==
    askLog # Empty =>
        LET n == Len(chat_history) - 1
        IN  lastPrompt = PromptHead(transcript, video_info)
                           \o ExpectedHistory(SubSeq(chat_history, 1, n))
                           \o CurrentQuestion(chat_history[n + 1][1])

C4_Witness ==
    /\ Len(chat_history) = HistoryWindow + 2
    /\ chat_history[1][2] = Empty
    /\ chat_history[2][2] # Empty
    /\ chat_history[HistoryWindow + 1][2] = Empty

SuccessCount(log) == Cardinality({i \in 1..Len(log) : ~log[i].failed})

\* C5 as stated: chat_history holds a pair only for a question whose backend
\* call succeeded.
C5_OnlySuccessfulAnswers == Len(chat_history) <= SuccessCount(askLog)

IsPrefix(a, b) == Len(a) <= Len(b) /\ SubSeq(b, 1, Len(a)) = a

\* C5 amended: chat_history is append-only within a run and holds one pair per
\* ask_question_stream call, in call order: the question and the text the call
\* returned, which is the empty string when the backend call failed.
C5_OnePairPerQuestion ==
    /\ [](/\ Len(chat_history) = Len(askLog)
          /\ \A i \in 1..Len(askLog) :
                /\ chat_history[i][1] = askLog[i].question
                /\ askLog[i].failed => chat_history[i][2] = Empty)
    /\ [][run' = run => IsPrefix(chat_history, chat_history')]_vars

C5_Witness ==
    /\ Len(chat_history) = 2
    /\ askLog[1].failed
    /\ ~askLog[2].failed

\* C6: no exception of get_youtube_transcript, download_audio,
\* transcribe_with_whisper, get_video_info, save_transcript_with_metadata,
\* summarize or ask_question_stream reaches main.
C6_NoExceptionReachesMain == pc # "raised"

\* a line that is "exit" or "quit" in any letter case, between whitespace
IsExitLine(raw) ==
    \E i \in 1..Len(raw) :
        /\ i + 3 <= Len(raw)
        /\ AllWhitespace(SubSeq(raw, 1, i - 1))
        /\ AllWhitespace(SubSeq(raw, i + 4, Len(raw)))
        /\ \/ /\ raw[i] \in {"e", "E"} /\ raw[i + 1] \in {"x", "X"}
              /\ raw[i + 2] \in {"i", "I"} /\ raw[i + 3] \in {"t", "T"}
           \/ /\ raw[i] \in {"q", "Q"} /\ raw[i + 1] \in {"u", "U"}
              /\ raw[i + 2] \in {"i", "I"} /\ raw[i + 3] \in {"t", "T"}

\* C7: at the question prompt, a line that is exit or quit (any case, trimmed)
\* makes main return normally, and any other line is answered, recorded with
\* the answer as given (empty when the backend failed) and followed by the
\* prompt again.
C7_LoopUntilExit ==
    [][pc = "L77" =>
          IF IsExitLine(lastInput')
          THEN pc' = "returned" /\ chat_history' = chat_history
          ELSE /\ pc' = "L77"
               /\ Len(chat_history') = Len(chat_history) + 1
               /\ IsTrimOf(chat_history'[Len(chat_history')][1], lastInput')
               /\ askLog'[Len(askLog')].failed => chat_history'[Len(chat_history')][2] = Empty]_vars

C7_Witness ==
    /\ pc = "returned"
    /\ lastInput = <<"\n", "Q", "U", "I", "T">>
    /\ Len(chat_history) = 2
    /\ chat_history[1][2] = Empty
    /\ askLog[1].failed

\* C8: after a save_transcript_with_metadata call that wrote, the file holds
\* exactly that call's header and transcript, whatever it held before; and a
\* call whose write failed raises nothing and leaves main's transcript as it
\* was returned.
C8_StoreOverwrites ==
    /\ (lastSave.made /\ lastSave.outcome = "ok")
          => file = [exists |-> TRUE, content |-> SaveText(lastSave.info, lastSave.text)]
    /\ (lastSave.made /\ lastSave.run = run /\ pc # "api")
          => pc # "raised" /\ transcript = lastSave.text

C8_Witness ==
    /\ run = 2
    /\ lastSave.run = 2
    /\ lastSave.outcome = "ok"
    /\ lastSave.overwrote
    /\ pc = "L77"

C8_FailedWriteWitness ==
    /\ lastSave.run = run
    /\ lastSave.outcome = "write_error"
    /\ pc = "L77"

\* the texts of the segments without their surrounding whitespace, those that
\* are then empty left out, with one space between neighbours
RECURSIVE ExpectedText(_)
ExpectedText(segs) ==
    IF segs = Empty THEN Empty
    ELSE LET before == ExpectedText(SubSeq(segs, 1, Len(segs) - 1))
             last == Trimmed(segs[Len(segs)])
         IN  IF last = Empty THEN before
             ELSE IF before = Empty THEN last
             ELSE before \o <<" ">> \o last

\* C9: when get_youtube_transcript returns, it returns ("", None) or
\* (text, "auto") with text non-empty; with a segment that has text, text is
\* the trimmed non-empty segment texts in order joined by single spaces and
\* has been handed to the transcript store; otherwise the result is
\* ("", None) and nothing was saved.
C9_ScrapeResult ==
    pc = "L50" =>
        /\ \/ transcript = Empty /\ lang = None
           \/ transcript # Empty /\ lang = "auto"
        /\ FoundSegment =>
              /\ transcript = ExpectedText(scraped.segs)
              /\ lang = "auto"
              /\ lastSave.made /\ lastSave.run = run /\ lastSave.text = transcript
              /\ lastSave.outcome = "ok" =>
                    file.content = SaveText(lastSave.info, transcript)
        /\ ~FoundSegment =>
              /\ transcript = Empty /\ lang = None
              /\ lastSave.run # run

C9_Witness ==
    /\ pc = "L50"
    /\ Len(scraped.segs) = 2
    /\ AllWhitespace(scraped.segs[1])
    /\ transcript = <<"b">>
    /\ lastSave.outcome = "ok"

C9_JoinWitness ==
    /\ pc = "L50"
    /\ transcript = <<"a", " ", "b">>

\* C10: in one process the Whisper model is loaded at most once, the cached
\* handle, once set, is never reset or replaced, and every later call obtains
\* that same handle.
C10_LazySingleton ==
    /\ [](loads <= 1)
    /\ [][_whisper_model # ModelNone =>
             /\ _whisper_model' = _whisper_model
             /\ lastHandle' = _whisper_model]_vars

C10_Witness ==
    /\ apiCalls >= 3
    /\ loads = 1
    /\ _whisper_model # ModelNone
    /\ lastHandle = _whisper_model
    /\ calls = {"get_whisper_model"}
    /\ heard.kind = "text"

====
